---- MODULE Spec2Model ----
(***************************************************************************)
(* A model of CPU.py, the CLASS Plotting Utility: the header decoder       *)
(* (extract_headers), the name normaliser (process_long_names,             *)
(* replace_scale), the command line driver (main) and the plot             *)
(* orchestrator (plot_CLASS_output).                                       *)
(*                                                                         *)
(* A Python string is a sequence of one-character strings, so that         *)
(* slicing, find, startswith and strip are computed as Python computes     *)
(* them.  A text file is the sequence of its lines as iteration over the   *)
(* file object yields them: each line is non-empty and keeps its "\n".     *)
(***************************************************************************)
EXTENDS Integers, Sequences, FiniteSets, TLC

VARIABLES
    input,      \* the invocation: entry point and arguments
    pc,         \* position in main / plot_CLASS_output
    call,       \* the parameters main handed to plot_CLASS_output
    selection,  \* plot_CLASS_output's local `selection`
    idx,        \* plot_CLASS_output's loop variable `idx` (zero-based)
    exc,        \* the exception that ended the invocation, if any
    render,     \* the matplotlib calls issued so far, in order
    text,       \* plot_CLASS_output's local `text`, as a sequence of pieces
    script,     \* what was written to files[0]+'.py', if anything
    pin,        \* input of the pure function under check
    pout        \* its result

vars == <<input, pc, call, selection, idx, exc, render, text, script, pin, pout>>

pipeVars == <<input, pc, call, selection, idx, exc, render, text, script>>

pureVars == <<pin, pout>>

----------------------------------------------------------------------------
(* Bounds of the model *)

\* longest list of files on the command line
MaxFiles == 2

\* longest list given to -s / --selection
MaxSel == 2

\* longest header text after its '#' that is enumerated exhaustively
MaxHeaderLen == 5

\* longest long name that is enumerated exhaustively
MaxNameLen == 4

----------------------------------------------------------------------------
(* Python's str and list primitives *)

Min(a, b) == IF a < b THEN a ELSE b

Max(a, b) == IF a > b THEN a ELSE b

\* The characters str.strip() removes (those the model's texts can hold).
Whitespace == {" ", "\t", "\n", "\r", "\f"}

\* A slice bound as Python clips it: negative counts from the end.
ClipIndex(i, n) == IF i < 0 THEN Max(0, i + n) ELSE Min(i, n)

\* s[a:b]
Slice(s, a, b) ==
    LET lo == ClipIndex(a, Len(s))
        hi == ClipIndex(b, Len(s))
    IN  IF lo >= hi THEN <<>> ELSE SubSeq(s, lo + 1, hi)

\* s[a:]
SliceFrom(s, a) == Slice(s, a, Len(s))

\* s.startswith(prefix, i)
StartsWith(s, prefix, i) ==
    LET lo == ClipIndex(i, Len(s))
    IN  /\ lo + Len(prefix) <= Len(s)
        /\ \A k \in 1..Len(prefix) : s[lo + k] = prefix[k]

\* s.find(sub): the lowest zero-based index where sub starts, or -1
Find(s, sub) ==
    LET hits == {i \in 0..Len(s) : StartsWith(s, sub, i)}
    IN  IF hits = {} THEN -1 ELSE CHOOSE i \in hits : \A j \in hits : i <= j

\* s.rfind(sub): the highest such index, or -1
RFind(s, sub) ==
    LET hits == {i \in 0..Len(s) : StartsWith(s, sub, i)}
    IN  IF hits = {} THEN -1 ELSE CHOOSE i \in hits : \A j \in hits : i >= j

RECURSIVE LStrip(_)
LStrip(s) == IF s # <<>> /\ Head(s) \in Whitespace THEN LStrip(Tail(s)) ELSE s

RECURSIVE RStrip(_)
RStrip(s) ==
    IF s # <<>> /\ s[Len(s)] \in Whitespace
    THEN RStrip(SubSeq(s, 1, Len(s) - 1))
    ELSE s

\* s.strip()
Strip(s) == RStrip(LStrip(s))

\* elem in list
InList(elem, list) == \E k \in 1..Len(list) : list[k] = elem

\* list.index(elem), zero-based; -1 stands for the ValueError Python raises
ListIndex(list, elem) ==
    LET hits == {k \in 1..Len(list) : list[k] = elem}
    IN  IF hits = {} THEN -1
        ELSE (CHOOSE k \in hits : \A j \in hits : k <= j) - 1

\* s.split(sep)[-1] for a one-character sep: what follows the last sep
RECURSIVE AfterLast(_, _)
AfterLast(s, sep) ==
    IF Find(s, <<sep>>) = -1 THEN s
    ELSE AfterLast(SliceFrom(s, Find(s, <<sep>>) + 1), sep)

\* s.split(sep)[0] for a one-character sep: what precedes the first sep
BeforeFirst(s, sep) ==
    IF Find(s, <<sep>>) = -1 THEN s ELSE Slice(s, 0, Find(s, <<sep>>))

----------------------------------------------------------------------------
(* The name normaliser *)

\* The text replace_scale puts between the parentheses: 8\pi G/3
ScaleMacro == <<"8", "\\", "p", "i", " ", "G", "/", "3">>

\* The marker of a leading scale: (.)
ScaleMarker == <<"(", ".", ")">>

\* replace_scale: drop the character at index 1, insert the macro there
replace_scale(string) ==
    Slice(string, 0, 1) \o ScaleMacro \o SliceFrom(string, 2)

\* First pass of process_long_names on one name: (short name, tex name)
FirstPass(name) ==
    IF StartsWith(name, ScaleMarker, 0)
    THEN [name |-> SliceFrom(name, 3), tex |-> replace_scale(name)]
    ELSE [name |-> name, tex |-> name]

\* Second pass of process_long_names on one short name
SecondPass(name) ==
    IF Find(name, <<"(">>) # -1 THEN Slice(name, 0, Find(name, <<"(">>))
    ELSE IF Find(name, <<"[">>) # -1 THEN Slice(name, 0, Find(name, <<"[">>))
    ELSE name

process_long_names(long_names) ==
    [names     |-> [i \in 1..Len(long_names) |->
                        SecondPass(FirstPass(long_names[i]).name)],
     tex_names |-> [i \in 1..Len(long_names) |-> FirstPass(long_names[i]).tex]]

----------------------------------------------------------------------------
(* The header decoder *)

\* [i+1 for i in range(len(header)) if header.startswith(':', i)], from i on
RECURSIVE IndicesFrom(_, _)
IndicesFrom(header, i) ==
    IF i >= Len(header) THEN <<>>
    ELSE IF StartsWith(header, <<":">>, i)
         THEN <<i + 1>> \o IndicesFrom(header, i + 1)
         ELSE IndicesFrom(header, i + 1)

\* The lines of the file whose first character is '#'
CommentLines(header_file) == SelectSeq(header_file, LAMBDA line : line[1] = "#")

\* LongNames with the last column forgotten: range(num_columns - 1)
LongNamesDropLast(header) ==
    LET indices == IndicesFrom(header, 0)
        num_columns == Len(indices)
    IN  [i \in 1..(num_columns - 1) |->
            Strip(Slice(header, indices[i], indices[i + 1] - 3))]

\* The list comprehension that cuts the long names out of the header line
LongNames(header) ==
    LET indices == IndicesFrom(header, 0)
        num_columns == Len(indices)
    IN  [i \in 1..num_columns |->
            IF i - 1 < num_columns - 1
            THEN Strip(Slice(header, indices[i], indices[i + 1] - 3))
            ELSE Strip(SliceFrom(header, indices[i]))]

\* extract_headers on the lines of the opened file.  header[-1] on an empty
\* list raises IndexError.
extract_headers(header_file) ==
    LET comments == CommentLines(header_file)
    IN  IF comments = <<>>
        THEN [err |-> "IndexError", num_columns |-> 0,
              names |-> <<>>, tex_names |-> <<>>]
        ELSE LET header == comments[Len(comments)]
                 long_names == LongNames(header)
                 processed == process_long_names(long_names)
             IN  [err |-> "none", num_columns |-> Len(IndicesFrom(header, 0)),
                  names |-> processed.names, tex_names |-> processed.tex_names]

----------------------------------------------------------------------------
(* The files on disk *)

PathA == <<"o", "/", "a", "_", "c", "l", ".", "d">>

PathB == <<"o", "/", "b", "_", "c", "l", ".", "d">>

PathPk == <<"o", "/", "c", "_", "p", "k", ".", "d">>

PathBg == <<"b", "g", ".", "d">>

PathRaw == <<"r", "a", "w", "_", "c", "l", ".", "d">>

PathT == <<"t", "_", "c", "l", ".", "d">>

PathBoth == <<"c", "l", "_", "p", "k", ".", "d">>

Paths == {PathA, PathB, PathPk, PathBg, PathRaw, PathT, PathBoth}

CommentLine == <<"#", " ", "C", "L", "A", "S", "S", "\n">>

DataLine == <<"1", " ", "2", " ", "3", "\n">>

\* #  1:l  2:TT  3:EE
HeaderA ==
    <<"#", " ", " ", "1", ":", "l", " ", " ", "2", ":", "T", "T",
      " ", " ", "3", ":", "E", "E", "\n">>

\* #  1:l  2:EE  3:TT
HeaderB ==
    <<"#", " ", " ", "1", ":", "l", " ", " ", "2", ":", "E", "E",
      " ", " ", "3", ":", "T", "T", "\n">>

\* # 1:k (h/Mpc)  2:P (Mpc/h)^3
HeaderPk ==
    <<"#", " ", "1", ":", "k", " ", "(", "h", "/", "M", "p", "c", ")",
      " ", " ", "2", ":", "P", " ", "(", "M", "p", "c", "/", "h", ")",
      "^", "3", "\n">>

\* # 1:z  2:(.)rho  3:P [Mpc^-3]
HeaderBg ==
    <<"#", " ", "1", ":", "z", " ", " ", "2", ":", "(", ".", ")", "r",
      "h", "o", " ", " ", "3", ":", "P", " ", "[", "M", "p", "c", "^",
      "-", "3", "]", "\n">>

\* # 1:T
HeaderT == <<"#", " ", "1", ":", "T", "\n">>

\* # 1:k  2:P  3:TT
HeaderBoth ==
    <<"#", " ", "1", ":", "k", " ", " ", "2", ":", "P", " ", " ", "3", ":",
      "T", "T", "\n">>

\* open(path, 'r'): the lines of the file at path.  The numeric rows are
\* well formed: np.loadtxt reads every file, each matrix has at least two
\* rows and as many columns as its header has markers.
Open(path) ==
    CASE path = PathA   -> <<CommentLine, HeaderA, DataLine>>
      [] path = PathB   -> <<CommentLine, HeaderB, DataLine>>
      [] path = PathPk  -> <<CommentLine, HeaderPk, DataLine>>
      [] path = PathBg  -> <<HeaderBg, DataLine>>
      [] path = PathRaw -> <<DataLine, DataLine>>
      [] path = PathT   -> <<HeaderT, DataLine>>
      [] path = PathBoth -> <<HeaderBoth, DataLine>>

\* extract_headers(path) for each file on disk; the files do not change
\* during an invocation
HeadersOf == [path \in Paths |-> extract_headers(Open(path))]

\* The working directory os.path.abspath resolves against
Cwd == <<"/", "w">>

\* os.path.abspath of the model's paths (none holds '.' or '..' parts)
AbsPath(path) ==
    IF StartsWith(path, <<"/">>, 0) THEN path ELSE Cwd \o <<"/">> \o path

\* elem.split(os.path.sep)[-1].split('.')[0]
Root(path) == BeforeFirst(AfterLast(path, "/"), ".")

----------------------------------------------------------------------------
(* Values of the pipeline *)

NoExc == [kind |-> "none", msg |-> <<>>]

NoCall == [made |-> FALSE]

\* A selection is a Python str or a Python list of str
StrSel(s) == [kind |-> "str", val |-> s]

ListSel(l) == [kind |-> "list", val |-> l]

NoSel == [kind |-> "None", val |-> <<>>]

\* The elements a for loop over the selection visits: a str yields its
\* characters, each a one-character str
Items(sel) ==
    IF sel.kind = "str" THEN [i \in 1..Len(sel.val) |-> <<sel.val[i]>>]
    ELSE sel.val

\* name in selection: membership in a list, substring of a str
InSelection(name, sel) ==
    IF sel.kind = "str" THEN Find(sel.val, name) # -1
    ELSE InList(name, sel.val)

NameTT == <<"T", "T">>

NameP == <<"P">>

----------------------------------------------------------------------------
(* main *)

\* InferSelection without the branch for 'pk'
InferSelectionClOnly(first) ==
    IF RFind(first, <<"c", "l">>) # -1
    THEN [ok |-> TRUE, selection |-> StrSel(NameTT), scale |-> "loglog"]
    ELSE [ok |-> FALSE, selection |-> NoSel, scale |-> ""]

\* The branch of main that infers selection and scale from files[0]
InferSelection(first) ==
    IF RFind(first, <<"c", "l">>) # -1
    THEN [ok |-> TRUE, selection |-> StrSel(NameTT), scale |-> "loglog"]
    ELSE IF RFind(first, <<"p", "k">>) # -1
    THEN [ok |-> TRUE, selection |-> StrSel(NameP), scale |-> "loglog"]
    ELSE [ok |-> FALSE, selection |-> NoSel, scale |-> ""]

\* main after parse_args: where it ends (usage printed and return, an
\* exception, or the call of plot_CLASS_output) and with what
main(args) ==
    IF Len(args.files) = 0
    THEN [pc |-> "returned", exc |-> NoExc, call |-> NoCall]
    ELSE IF args.ratio
    THEN [pc |-> "raised", exc |-> [kind |-> "InputError", msg |-> <<>>],
          call |-> NoCall]
    ELSE
    LET given == args.selection.kind # "None"
        inferred == InferSelection(args.files[1])
        sel == IF given THEN args.selection ELSE inferred.selection
        scale == IF given THEN "" ELSE inferred.scale
        argscale == IF args.scale = "None"
                    THEN (IF scale # "" THEN scale ELSE "lin")
                    ELSE args.scale
    IN  IF ~given /\ ~inferred.ok
        THEN [pc |-> "raised", exc |-> [kind |-> "TypeError", msg |-> <<>>],
              call |-> NoCall]
        ELSE IF args.ratio /\ Len(args.files) < 2
        THEN [pc |-> "raised",
              exc |-> [kind |-> "NumberOfFilesError", msg |-> <<>>],
              call |-> NoCall]
        ELSE [pc |-> "plot", exc |-> NoExc,
              call |-> [made |-> TRUE, files |-> args.files,
                        selection |-> sel, ratio |-> args.ratio,
                        scale |-> argscale]]

----------------------------------------------------------------------------
(* plot_CLASS_output *)

\* CheckSelection with a two-column file checked like a wider one, the
\* caller's selection kept
CheckSelectionNoForce(num_columns, names, sel) ==
    IF num_columns >= 2
    THEN LET cast == IF sel.kind = "str" THEN ListSel(<<sel.val>>) ELSE sel
             bad == {k \in 1..Len(cast.val) : ~InList(cast.val[k], names)}
         IN  IF bad = {}
             THEN [err |-> FALSE, elem |-> <<>>, selection |-> cast]
             ELSE [err |-> TRUE,
                   elem |-> cast.val[CHOOSE k \in bad : \A j \in bad : k <= j],
                   selection |-> cast]
    ELSE [err |-> FALSE, elem |-> <<>>, selection |-> sel]

\* "Check if everything is in order": the selection after the check, or the
\* element the InputError names
CheckSelection(num_columns, names, sel) ==
    IF num_columns = 2
    THEN [err |-> FALSE, elem |-> <<>>, selection |-> ListSel(<<names[2]>>)]
    ELSE IF num_columns > 2
    THEN LET cast == IF sel.kind = "str" THEN ListSel(<<sel.val>>) ELSE sel
             bad == {k \in 1..Len(cast.val) : ~InList(cast.val[k], names)}
         IN  IF bad = {}
             THEN [err |-> FALSE, elem |-> <<>>, selection |-> cast]
             ELSE [err |-> TRUE,
                   elem |-> cast.val[CHOOSE k \in bad : \A j \in bad : k <= j],
                   selection |-> cast]
    ELSE [err |-> FALSE, elem |-> <<>>, selection |-> sel]

\* [elem for (elem, name) in zip(tex_names, names) if name in selection]:
\* the tex name at each position whose short name is selected
RECURSIVE SelectedTexNames(_, _, _)
SelectedTexNames(tex_names, names, sel) ==
    IF tex_names = <<>> \/ names = <<>> THEN <<>>
    ELSE (IF InSelection(Head(names), sel) THEN <<Head(tex_names)>> ELSE <<>>)
         \o SelectedTexNames(Tail(tex_names), Tail(names), sel)

\* The script text up to the loop over the curves
ScriptHead(files, sel, names, tex_names, ratio) ==
    <<  <<"import">>,
        <<"files", [i \in 1..Len(files) |-> AbsPath(files[i])]>>,
        <<"load">>,
        <<"selection", sel>>,
        <<"tex_names", SelectedTexNames(tex_names, names, sel)>>,
        <<"subplots">> >>
    \o (IF ~ratio THEN << <<"for">> >> ELSE <<>>)

\* PlotCommand whose loglog branch writes its line and forgets the call
PlotCommandTextOnly(scale, fileidx, index) ==
    IF scale = "lin"
    THEN [text |-> << <<"ax.">>, <<"plot", index>> >>,
          render |-> << <<"plot", fileidx, 0, index>> >>]
    ELSE IF scale = "loglog"
    THEN [text |-> << <<"ax.">>, <<"loglog", index>> >>, render |-> <<>>]
    ELSE [text |-> << <<"ax.">> >>, render |-> <<>>]

\* One pass of the inner loop body: the text appended and the call issued
PlotCommand(scale, fileidx, index) ==
    IF scale = "lin"
    THEN [text |-> << <<"ax.">>, <<"plot", index>> >>,
          render |-> << <<"plot", fileidx, 0, index>> >>]
    ELSE IF scale = "loglog"
    THEN [text |-> << <<"ax.">>, <<"loglog", index>> >>,
          render |-> << <<"loglog", fileidx, 0, index>> >>]
    ELSE [text |-> << <<"ax.">> >>, render |-> <<>>]

\* The inner loop "for selec in selection" over one file: what was appended
\* and issued until the loop ended or curve_names.index raised ValueError
RECURSIVE PlotSelected(_, _, _, _)
PlotSelected(curve_names, items, scale, fileidx) ==
    IF items = <<>>
    THEN [err |-> FALSE, elem |-> <<>>, text |-> <<>>, render |-> <<>>]
    ELSE LET selec == Head(items)
             index == ListIndex(curve_names, selec)
         IN  IF index = -1
             THEN [err |-> TRUE, elem |-> selec, text |-> <<>>, render |-> <<>>]
             ELSE LET here == PlotCommand(scale, fileidx, index)
                      rest == PlotSelected(curve_names, Tail(items), scale, fileidx)
                  IN  [err |-> rest.err, elem |-> rest.elem,
                       text |-> here.text \o rest.text,
                       render |-> here.render \o rest.render]

\* itertools.product(roots, selection), as root+': '+elem
RECURSIVE LegendLabels(_, _)
LegendLabels(roots, items) ==
    IF roots = <<>> THEN <<>>
    ELSE [k \in 1..Len(items) |-> Head(roots) \o <<":", " ">> \o items[k]]
         \o LegendLabels(Tail(roots), items)

\* files[0]+'.py'
ScriptPath(files) == files[1] \o <<".", "p", "y">>

----------------------------------------------------------------------------
(* Invocations *)

FileLists(lo) == UNION {[1..n -> Paths] : n \in lo..MaxFiles}

\* Names a caller may ask for: TT, P followed by a blank (the short name
\* the decoder gives "P [Mpc^-3]"), and zz, a field of no file
SelNames == {NameTT, <<"P", " ">>, <<"z", "z">>}

SelLists(lo) == UNION {[1..n -> SelNames] : n \in lo..MaxSel}

\* What parse_args can return: -s takes one or more names
MainInputs ==
    [entry : {"main"},
     args : [files : FileLists(0), ratio : BOOLEAN,
             selection : {NoSel} \cup {ListSel(l) : l \in SelLists(1)},
             scale : {"None", "lin", "loglog", "loglin"}]]

\* Direct calls of plot_CLASS_output on at least one file
CallInputs ==
    [entry : {"call"},
     args : [files : FileLists(1), ratio : BOOLEAN,
             selection : {StrSel(n) : n \in SelNames}
                         \cup {ListSel(l) : l \in SelLists(0)},
             scale : {"lin", "loglog", "loglin"}]]

NotRun == [done |-> FALSE]

Init ==
    /\ input \in MainInputs \cup CallInputs
    /\ pc = "start"
    /\ call = NoCall
    /\ selection = NoSel
    /\ idx = 0
    /\ exc = NoExc
    /\ render = <<>>
    /\ text = <<>>
    /\ script = <<>>
    /\ pin = <<>>
    /\ pout = NotRun

\* main, from the parsed arguments to its return, its exception or its call
\* of plot_CLASS_output
Main ==
    /\ pc = "start"
    /\ input.entry = "main"
    /\ LET r == main(input.args)
       IN  /\ pc' = r.pc
           /\ exc' = r.exc
           /\ call' = r.call
    /\ UNCHANGED <<input, selection, idx, render, text, script, pin, pout>>

\* A caller other than main invokes plot_CLASS_output
CallPlot ==
    /\ pc = "start"
    /\ input.entry = "call"
    /\ pc' = "plot"
    /\ call' = [made |-> TRUE, files |-> input.args.files,
                selection |-> input.args.selection,
                ratio |-> input.args.ratio, scale |-> input.args.scale]
    /\ UNCHANGED <<input, selection, idx, exc, render, text, script, pin, pout>>

\* plot_CLASS_output from its entry to the start of the loop over the files:
\* decode the first file, check the selection, create the figure
PlotPrepare ==
    /\ pc = "plot"
    /\ LET h == HeadersOf[call.files[1]]
           v == CheckSelection(h.num_columns, h.names, call.selection)
       IN  IF h.err # "none"
           THEN /\ pc' = "raised"
                /\ exc' = [kind |-> h.err, msg |-> <<>>]
                /\ UNCHANGED <<selection, render, text>>
           ELSE IF v.err
           THEN /\ pc' = "raised"
                /\ exc' = [kind |-> "InputError", msg |-> <<v.elem>>]
                /\ UNCHANGED <<selection, render, text>>
           ELSE /\ pc' = IF ~call.ratio THEN "loop" ELSE "show"
                /\ selection' = v.selection
                /\ text' = ScriptHead(call.files, v.selection, h.names,
                                      h.tex_names, call.ratio)
                /\ render' = << <<"subplots">> >>
                /\ UNCHANGED exc
    /\ idx' = 0
    /\ UNCHANGED <<input, call, script, pin, pout>>

\* One pass of "for idx, curve in enumerate(data)"
PlotFile ==
    /\ pc = "loop"
    /\ idx < Len(call.files)
    /\ LET h == HeadersOf[call.files[idx + 1]]
           r == PlotSelected(h.names, Items(selection), call.scale, idx)
       IN  IF h.err # "none"
           THEN /\ pc' = "raised"
                /\ exc' = [kind |-> h.err, msg |-> <<>>]
                /\ UNCHANGED <<render, text, idx>>
           ELSE /\ text' = text \o r.text
                /\ render' = render \o r.render
                /\ IF r.err
                   THEN /\ pc' = "raised"
                        /\ exc' = [kind |-> "ValueError", msg |-> <<r.elem>>]
                        /\ UNCHANGED idx
                   ELSE /\ idx' = idx + 1
                        /\ UNCHANGED <<pc, exc>>
    /\ UNCHANGED <<input, call, selection, script, pin, pout>>

\* ax.legend, after the last file
PlotLegend ==
    /\ pc = "loop"
    /\ idx = Len(call.files)
    /\ render' = Append(render,
          <<"legend", LegendLabels([i \in 1..Len(call.files) |-> Root(call.files[i])],
                                   Items(selection))>>)
    /\ pc' = "show"
    /\ UNCHANGED <<input, call, selection, idx, exc, text, script, pin, pout>>

\* plt.show()
PlotShow ==
    /\ pc = "show"
    /\ text' = Append(text, <<"show">>)
    /\ render' = Append(render, <<"show">>)
    /\ pc' = "write"
    /\ UNCHANGED <<input, call, selection, idx, exc, script, pin, pout>>

\* Write the script to files[0]+'.py'
PlotWrite ==
    /\ pc = "write"
    /\ script' = <<[path |-> ScriptPath(call.files), text |-> text]>>
    /\ pc' = "done"
    /\ UNCHANGED <<input, call, selection, idx, exc, render, text, pin, pout>>

Next ==
    \/ Main
    \/ CallPlot
    \/ PlotPrepare
    \/ PlotFile
    \/ PlotLegend
    \/ PlotShow
    \/ PlotWrite

Spec == Init /\ [][Next]_vars

----------------------------------------------------------------------------
(* The name normaliser and the header decoder on their own *)

Idle(at) ==
    /\ input = [entry |-> "none"]
    /\ pc = at
    /\ call = NoCall
    /\ selection = NoSel
    /\ idx = 0
    /\ exc = NoExc
    /\ render = <<>>
    /\ text = <<>>
    /\ script = <<>>

TextsUpTo(alphabet, n) == UNION {[1..k -> alphabet] : k \in 0..n}

NameAlphabet == {"(", ".", ")", "[", "a", " "}

\* The long names of the docstrings and of CLASS's background file
DocNames ==
    { <<"(", ".", ")", "t", "o", "t", "o">>,
      <<"p", "r", "o", "p", "e", "r", " ", "t", "i", "m", "e", " ", "[", "G", "y", "r", "]">>,
      <<"P", " ", "[", "M", "p", "c", "^", "-", "3", "]">>,
      <<"(", ".", ")", "r", "h", "o", "_", "c", "r", "i", "t">>,
      <<"x">> }

NameLists ==
    {<<n>> : n \in TextsUpTo(NameAlphabet, MaxNameLen) \cup DocNames}
    \cup {<<n, m>> : n \in DocNames, m \in DocNames}

InitNames ==
    /\ Idle("names")
    /\ pin \in NameLists
    /\ pout = NotRun

ProcessNames ==
    /\ pc = "names"
    /\ ~pout.done
    /\ pout' = [done |-> TRUE, res |-> process_long_names(pin)]
    /\ UNCHANGED <<pipeVars, pin>>

SpecNames == InitNames /\ [][ProcessNames]_vars

HeaderAlphabet == {":", " ", "a", "(", "[", "2"}

\* A header line of every text over the alphabet, alone in the file or
\* after an earlier comment line that also holds markers and before data;
\* the headers of the files on disk; and files with no comment line
HeaderFiles ==
    LET lines == {<<"#">> \o t \o <<"\n">> :
                      t \in TextsUpTo(HeaderAlphabet, MaxHeaderLen)}
                 \cup {HeaderA, HeaderB, HeaderPk, HeaderBg, HeaderT, HeaderBoth}
    IN  {<<l>> : l \in lines}
        \cup {<<HeaderT, l, DataLine, <<"\n">> >> : l \in lines}
        \cup {<<>>, <<DataLine>>, <<DataLine, <<"\n">> >>,
              << <<" ", "#", ":", "a", "\n">>, DataLine>>}

InitHeader ==
    /\ Idle("header")
    /\ pin \in HeaderFiles
    /\ pout = NotRun

ExtractHeaders ==
    /\ pc = "header"
    /\ ~pout.done
    /\ pout' = [done |-> TRUE, res |-> extract_headers(pin)]
    /\ UNCHANGED <<pipeVars, pin>>

SpecHeader == InitHeader /\ [][ExtractHeaders]_vars

----------------------------------------------------------------------------
(* Vocabulary of the properties *)

\* a occurs in b as a contiguous piece
IsInfix(a, b) ==
    \E off \in 0..(Len(b) - Len(a)) : \A k \in 1..Len(a) : b[off + k] = a[k]

\* The one-based positions of the ':' markers of a header line, ascending
MarkerSet(header) == {p \in 1..Len(header) : header[p] = ":"}

NthMarker(header, i) ==
    CHOOSE p \in MarkerSet(header) :
        Cardinality({r \in MarkerSet(header) : r < p}) = i - 1

\* The text between the i-th marker and the next one (or the end of line)
Segment(header, i) ==
    LET n == Cardinality(MarkerSet(header))
        from == NthMarker(header, i) + 1
        to == IF i < n THEN NthMarker(header, i + 1) - 1 ELSE Len(header)
    IN  IF from > to THEN <<>> ELSE SubSeq(header, from, to)

\* The last line of a file that begins with '#', when there is one
HasComment(file) == \E k \in 1..Len(file) : file[k][1] = "#"

LastComment(file) ==
    file[CHOOSE k \in 1..Len(file) :
            /\ file[k][1] = "#"
            /\ \A j \in (k + 1)..Len(file) : file[j][1] # "#"]

\* A tex name with the expanded macro put back to (.)
Unexpand(t) ==
    IF StartsWith(t, <<"(">> \o ScaleMacro \o <<")">>, 0)
    THEN ScaleMarker \o SliceFrom(t, Len(ScaleMacro) + 2)
    ELSE t

\* The plot calls among the rendering calls, as (file, y column)
RECURSIVE Curves(_)
Curves(calls) ==
    IF calls = <<>> THEN <<>>
    ELSE (IF Head(calls)[1] \in {"plot", "loglog"}
          THEN << <<Head(calls)[2], Head(calls)[4]>> >> ELSE <<>>)
         \o Curves(Tail(calls))

\* The plot command lines of a script text
PlotLines(pieces) ==
    SelectSeq(pieces, LAMBDA piece : piece[1] \in {"plot", "loglog"})

\* The invocation is over
Ended == pc \in {"done", "raised", "returned"}

\* plot_CLASS_output has got past its selection check, or has failed
Prepared == call.made /\ pc # "plot"

\* The selection a caller asked for as a list: a single string is a
\* one-element list
AsList(sel) == IF sel.kind = "str" THEN <<sel.val>> ELSE sel.val

----------------------------------------------------------------------------
(* Properties *)

\* The selection in force in plot_CLASS_output: the second column's short
\* name when the first file has two columns, else what the caller asked for
InForce ==
    LET h == HeadersOf[call.files[1]]
    IN  IF h.num_columns = 2 THEN <<h.names[2]>> ELSE AsList(call.selection)

AllDecode == \A i \in 1..Len(call.files) : HeadersOf[call.files[i]].err = "none"

\* The (file, name) pairs whose name is absent from the file's short names
Absent ==
    {<<i, n>> \in (1..Len(call.files)) \X {InForce[k] : k \in 1..Len(InForce)} :
        ~InList(n, HeadersOf[call.files[i]].names)}

\* C1: when every file has a header and some selected name is absent from
\* the short names of some file, first or later, plot_CLASS_output ends
\* with InputError and the message names an absent field.
C1_AbsentFieldIsInputError ==
    (call.made /\ Ended /\ AllDecode /\ Absent # {})
        => /\ exc.kind = "InputError"
           /\ \E a \in Absent : exc.msg = <<a[2]>>

\* C2: an invocation of plot_CLASS_output that fails has issued no
\* rendering call: no figure, no curve, no legend, no show.
C2_NoRenderingOnFailure ==
    (call.made /\ pc = "raised") => render = <<>>

\* The curves C3 expects: file-major, one per selected field, at the
\* field's index in that file's own short names
ExpectedCurves ==
    LET nf == Len(call.files)
        ns == Len(InForce)
    IN  [k \in 1..(nf * ns) |->
            LET i == (k - 1) \div ns
                j == ((k - 1) % ns) + 1
            IN  <<i, ListIndex(HeadersOf[call.files[i + 1]].names, InForce[j])>>]

ExpectedLabels ==
    LET nf == Len(call.files)
        ns == Len(InForce)
    IN  [k \in 1..(nf * ns) |->
            LET i == (k - 1) \div ns
                j == ((k - 1) % ns) + 1
            IN  Root(call.files[i + 1]) \o <<":", " ">> \o InForce[j]]

\* C3: in overlay mode, whatever the scale, a plot_CLASS_output that
\* succeeds has issued exactly one curve per (file, selected field), file
\* by file, at the field's index in that file, and one legend whose labels
\* are 'root: short_name' in the same order.
C3_OneCurvePerPair ==
    (call.made /\ pc = "done" /\ ~call.ratio)
        => /\ Curves(render) = ExpectedCurves
           /\ \E k \in 1..Len(render) : render[k] = <<"legend", ExpectedLabels>>

\* C4: extract_headers decodes the last line beginning with '#', and ends
\* with FormatError when the file has no such line.
C4_HeaderOrFormatError ==
    (pc = "header" /\ pout.done)
        => IF HasComment(pin)
           THEN pout.res = extract_headers(<<LastComment(pin)>>)
           ELSE pout.res.err = "FormatError"

\* C5: main with the ratio flag and at least one file raises
\* NumberOfFilesError on fewer than 2 files and InputError on 2 or more,
\* and never reaches plot_CLASS_output.
C5_RatioErrors ==
    (input.entry = "main" /\ pc # "start"
        /\ input.args.ratio /\ Len(input.args.files) >= 1)
        => /\ ~call.made
           /\ pc = "raised"
           /\ exc.kind = IF Len(input.args.files) < 2
                         THEN "NumberOfFilesError" ELSE "InputError"

\* The number of ':' markers in the header line of the first file
FirstFileMarkers ==
    IF HasComment(Open(call.files[1]))
    THEN Cardinality(MarkerSet(LastComment(Open(call.files[1]))))
    ELSE 0

\* C6: when the first file's header has exactly 2 columns, the selection
\* plot_CLASS_output uses is the one-element list of the short name of that
\* file's second column, whatever the caller supplied; the check raises no
\* InputError, and every curve plotted, of every file, is that field's.
C6_TwoColumnsForceSelection ==
    (Prepared /\ FirstFileMarkers = 2)
        => LET forced == HeadersOf[call.files[1]].names[2]
           IN  /\ exc.kind # "InputError"
               /\ selection = ListSel(<<forced>>)
               /\ \A k \in 1..Len(Curves(render)) :
                     LET c == Curves(render)[k]
                     IN  c[2] = ListIndex(HeadersOf[call.files[c[1] + 1]].names, forced)

\* A two-column first file, a second file, and a caller who asked for a
\* name the first file does not hold, plotted to the end
C6_Witness ==
    /\ pc = "done"
    /\ FirstFileMarkers = 2
    /\ Len(call.files) = 2
    /\ call.selection = ListSel(<< <<"z", "z">> >>)
    /\ Len(Curves(render)) = 2

\* C7: for every header line extract_headers returns num_columns equal to
\* the number of ':' markers, as many short names and as many tex names,
\* and entry i of each comes from the text after the i-th marker.
C7_OneDescriptorPerMarker ==
    (pc = "header" /\ pout.done /\ HasComment(pin))
        => LET header == LastComment(pin)
               n == Cardinality(MarkerSet(header))
               r == pout.res
           IN  /\ r.err = "none"
               /\ r.num_columns = n
               /\ Len(r.names) = n
               /\ Len(r.tex_names) = n
               /\ \A i \in 1..n :
                     /\ IsInfix(r.names[i], Segment(header, i))
                     /\ \/ IsInfix(r.tex_names[i], Segment(header, i))
                        \/ IsInfix(Unexpand(r.tex_names[i]), Segment(header, i))
                     /\ IsInfix(r.names[i], Unexpand(r.tex_names[i]))

\* A header of three columns, the second with a leading scale
C7_Witness ==
    /\ pc = "header"
    /\ pout.done
    /\ pout.res.num_columns = 3
    /\ pout.res.names[2] = <<"r", "h", "o">>
    /\ pout.res.names[1] = <<"z">>

\* The short name C8 describes: the scale-stripped name cut at its first
\* '(' if it has one, else at its first '[', and trimmed; else the name
TrimmedShortName(long) ==
    LET base == IF StartsWith(long, ScaleMarker, 0) THEN SliceFrom(long, 3) ELSE long
        paren == {p \in 1..Len(base) : base[p] = "("}
        brack == {p \in 1..Len(base) : base[p] = "["}
        first(S) == CHOOSE p \in S : \A r \in S : p <= r
    IN  IF paren # {} THEN RStrip(SubSeq(base, 1, first(paren) - 1))
        ELSE IF brack # {} THEN RStrip(SubSeq(base, 1, first(brack) - 1))
        ELSE base

\* C8: process_long_names gives every long name the short name cut at the
\* first '(' (else the first '[') with trailing whitespace trimmed, the
\* name itself when it has neither, and a display name that is never cut.
C8_ShortNameTrimmed ==
    (pc = "names" /\ pout.done)
        => \A i \in 1..Len(pin) :
              /\ pout.res.names[i] = TrimmedShortName(pin[i])
              /\ Unexpand(pout.res.tex_names[i]) = pin[i]

\* s occurs in the path
Holds(path, s) == IsInfix(s, path)

\* C9: main with at least one file, no ratio flag and no selection raises
\* TypeError exactly when the first file's name holds neither 'cl' nor
\* 'pk'; otherwise it calls plot_CLASS_output with 'TT' (cl) or 'P' (pk,
\* no cl) and scale loglog unless --scale was given.  With a selection it
\* never raises TypeError, passes the selection on, and the scale defaults
\* to lin.
C9_InferenceAndDefaults ==
    (input.entry = "main" /\ pc # "start"
        /\ ~input.args.ratio /\ Len(input.args.files) >= 1)
        => LET first == input.args.files[1]
               cl == Holds(first, <<"c", "l">>)
               pk == Holds(first, <<"p", "k">>)
               given == input.args.selection.kind # "None"
               scaleOr(default) == IF input.args.scale = "None"
                                   THEN default ELSE input.args.scale
           IN  IF given
               THEN /\ exc.kind # "TypeError"
                    /\ call.made
                    /\ call.selection = input.args.selection
                    /\ call.scale = scaleOr("lin")
                    /\ call.files = input.args.files
               ELSE /\ (exc.kind = "TypeError") <=> (~cl /\ ~pk)
                    /\ (~cl /\ ~pk) => (~call.made /\ pc = "raised")
                    /\ (cl \/ pk) =>
                          /\ call.made
                          /\ call.selection = StrSel(IF cl THEN NameTT ELSE NameP)
                          /\ call.scale = scaleOr("loglog")
                          /\ call.files = input.args.files

\* main inferred P and loglog from a pk file name and called the plot
C9_Witness ==
    /\ input.entry = "main"
    /\ input.args.selection = NoSel
    /\ input.args.scale = "None"
    /\ call.made
    /\ call.selection = StrSel(NameP)
    /\ call.scale = "loglog"
    /\ pc = "plot"

\* C10: the script is written only as the last step, after the plot calls
\* and plt.show; an invocation that ends in an error writes none; a
\* written script names files[0]+'.py' and holds one plot command line per
\* curve plotted.
C10_ScriptLastAndFaithful ==
    /\ script # <<>> =>
          /\ pc = "done"
          /\ exc = NoExc
          /\ render # <<>>
          /\ render[Len(render)] = <<"show">>
          /\ script[1].path = call.files[1] \o <<".", "p", "y">>
          /\ Len(PlotLines(script[1].text)) = Len(Curves(render))
          /\ \A k \in 1..Len(Curves(render)) :
                PlotLines(script[1].text)[k][2] = Curves(render)[k][2]
    /\ pc = "raised" => script = <<>>
    /\ pc = "done" => script # <<>>

\* A script written after four curves of two files
C10_Witness ==
    /\ pc = "done"
    /\ script # <<>>
    /\ Len(call.files) = 2
    /\ Len(Curves(render)) = 4

====
